---- MODULE Spec2Model ----
(***************************************************************************)
(* bukuserver/server.py: the environment-driven configuration done by      *)
(* create_app and the three module-level request handlers                  *)
(* (handle_network, refresh_bookmark, get_tiny_url).                       *)
(*                                                                         *)
(* Python strings on which the code does character-level work (lower(),    *)
(* startswith(), endswith(), int()) are sequences of one-character         *)
(* strings.  An optional string (os.getenv result, db_file argument) is a  *)
(* record [isNone, val].                                                   *)
(*                                                                         *)
(* Spec       create_app followed by requests, in any order and number     *)
(* SpecConfig create_app alone, over the environments it can be started in *)
(* SpecBool   get_bool_from_env_var alone, over the values of a variable   *)
(***************************************************************************)
EXTENDS Integers, Sequences, FiniteSets, TLC

VARIABLES
    env,          \* os.environ restricted to the BUKUSERVER_* variables
    mwAvailable,  \* ReverseProxyPrefixFix is not None (import at lines 16-19 succeeded)
    pc,           \* "init" before create_app, then "running" or "aborted"
    error,        \* the exception create_app raised, "none" when it returned
    config,       \* app.config: a function from the keys written so far to their values
    warnings,     \* the warnings create_app printed, in order
    app,          \* what create_app installed on the app: middleware, locale, admin views
    bukudb,       \* the handle create_app created (0: none yet)
    g,            \* per thread, the 'bukudb' attribute of the flask.g of the pushed app context (0: absent)
    nHandles,     \* number of BukuDb handles created so far; handle ids are 1..nHandles
    store,        \* ids of the bookmarks in the database file
    last,         \* the last request served: its inputs, the calls it made, its response
    call          \* the last direct call of get_bool_from_env_var: key, default, result

vars == <<env, mwAvailable, pc, error, config, warnings, app, bukudb, g, nHandles, store, last, call>>

-----------------------------------------------------------------------------
(* Bounds *)

\* longest BUKUSERVER_PER_PAGE value drawn from PerPageChars
MaxLen == 2
\* longest boolean-flag value drawn from BoolChars
MaxBoolLen == 2
\* BukuDb handles created in one run
MaxHandles == 3
\* worker threads besides the thread that ran create_app (thread 0)
MaxThreads == 1
\* largest record id a request names
MaxRecId == 2

-----------------------------------------------------------------------------
(* Python values *)

None == [isNone |-> TRUE, val |-> <<>>]
Str(s) == [isNone |-> FALSE, val |-> s]
\* truthiness of an optional string: None and '' are falsy
Truthy(x) == ~x.isNone /\ x.val # <<>>
\* x or y
Or(x, y) == IF Truthy(x) THEN x ELSE y

RECURSIVE SeqsUpTo(_, _)
SeqsUpTo(chars, n) ==
    IF n = 0 THEN {<<>>}
    ELSE LET shorter == SeqsUpTo(chars, n - 1)
         IN  shorter \cup {Append(s, c) : s \in shorter, c \in chars}

UpperAlpha == <<"A","B","C","D","E","F","G","H","I","J","K","L","M",
                "N","O","P","Q","R","S","T","U","V","W","X","Y","Z">>
LowerAlpha == <<"a","b","c","d","e","f","g","h","i","j","k","l","m",
                "n","o","p","q","r","s","t","u","v","w","x","y","z">>

LowerChar(c) ==
    IF \E i \in 1..26 : UpperAlpha[i] = c
    THEN LowerAlpha[CHOOSE i \in 1..26 : UpperAlpha[i] = c]
    ELSE c

\* str.lower()
Lower(s) == [i \in 1..Len(s) |-> LowerChar(s[i])]

\* str.startswith('/') and str.endswith('/')
StartsWithSlash(s) == Len(s) > 0 /\ s[1] = "/"
EndsWithSlash(s) == Len(s) > 0 /\ s[Len(s)] = "/"

DigitChars == <<"0","1","2","3","4","5","6","7","8","9">>
IsDigit(c) == \E i \in 1..10 : DigitChars[i] = c
DigitVal(c) == (CHOOSE i \in 1..10 : DigitChars[i] = c) - 1

RECURSIVE Strip(_)
\* str.strip() for the blank character
Strip(s) ==
    IF s = <<>> THEN s
    ELSE IF s[1] = " " THEN Strip(Tail(s))
    ELSE IF s[Len(s)] = " " THEN Strip(SubSeq(s, 1, Len(s) - 1))
    ELSE s

RECURSIVE DigitsValue(_)
DigitsValue(s) ==
    IF s = <<>> THEN 0
    ELSE 10 * DigitsValue(SubSeq(s, 1, Len(s) - 1)) + DigitVal(s[Len(s)])

\* int(s) for a str: surrounding blanks stripped, an optional sign, then one
\* or more decimal digits; anything else raises ValueError (ok = FALSE).
IntParse(s) ==
    LET t == Strip(s)
        signed == t # <<>> /\ t[1] \in {"-", "+"}
        digits == IF signed THEN Tail(t) ELSE t
        wellFormed == digits # <<>> /\ \A i \in 1..Len(digits) : IsDigit(digits[i])
    IN  IF ~wellFormed THEN [ok |-> FALSE, val |-> 0]
        ELSE [ok |-> TRUE,
              val |-> IF signed /\ t[1] = "-" THEN 0 - DigitsValue(digits)
                      ELSE DigitsValue(digits)]

RECURSIVE IntToStr(_)
\* str(n) for n >= 0
IntToStr(n) ==
    IF n < 10 THEN <<DigitChars[n + 1]>>
    ELSE Append(IntToStr(n \div 10), DigitChars[(n % 10) + 1])

S_true == <<"t","r","u","e">>
S_false == <<"f","a","l","s","e">>
S_full == <<"f","u","l","l">>
S_netloc == <<"n","e","t","l","o","c">>
S_default == <<"d","e","f","a","u","l","t">>
S_en == <<"e","n">>

-----------------------------------------------------------------------------
(* The environment *)

\* os.getenv(key): None when the variable is unset
getenv(key) == env[key]
\* os.getenv(key, default)
getenv_default(key, default) == IF env[key].isNone THEN default ELSE env[key].val

\* views.DEFAULT_PER_PAGE and views.DEFAULT_URL_RENDER_MODE
DEFAULT_PER_PAGE == 10
DEFAULT_URL_RENDER_MODE == S_full

BOOL_VALUES == (S_true :> TRUE) @@ (<<"1">> :> TRUE) @@ (S_false :> FALSE) @@ (<<"0">> :> FALSE)

\* dict.get(k, default)
DictGet(d, k, default) == IF k \in DOMAIN d THEN d[k] ELSE default

\* get_bool_from_env_var without the .lower()
get_bool_from_env_var_exact(key, default_value) ==
    DictGet(BOOL_VALUES, getenv_default(key, <<>>), default_value)

get_bool_from_env_var(key, default_value) ==
    DictGet(BOOL_VALUES, Lower(getenv_default(key, <<>>)), default_value)

-----------------------------------------------------------------------------
(* create_app *)

\* line 81: int(os.getenv('BUKUSERVER_PER_PAGE', str(views.DEFAULT_PER_PAGE)))
PerPageEnv == IntParse(getenv_default("BUKUSERVER_PER_PAGE", IntToStr(DEFAULT_PER_PAGE)))

\* line 82 with >= for >
PerPage_nonneg(n) == IF n >= 0 THEN n ELSE DEFAULT_PER_PAGE

\* line 82
PerPage(n) == IF n > 0 THEN n ELSE DEFAULT_PER_PAGE

\* lines 84-87 without the membership test
UrlRenderMode_unvalidated ==
    getenv_default("BUKUSERVER_URL_RENDER_MODE", DEFAULT_URL_RENDER_MODE)

\* lines 84-86
UrlRenderMode ==
    LET url_render_mode == getenv_default("BUKUSERVER_URL_RENDER_MODE", DEFAULT_URL_RENDER_MODE)
    IN  IF url_render_mode \notin {S_full, S_netloc} THEN DEFAULT_URL_RENDER_MODE
        ELSE url_render_mode

\* lines 98-101: the warnings printed for a non-empty reverse proxy path
ProxyWarnings(path) ==
    (IF ~StartsWithSlash(path) THEN <<"preceding slash">> ELSE <<>>)
    \o (IF EndsWithSlash(path) THEN <<"trailing slash">> ELSE <<>>)

\* lines 83-95: the keys written before the reverse proxy path is looked at
ConfigBase(db_file, rnd) ==
    ("BUKUSERVER_PER_PAGE" :> PerPage(PerPageEnv.val))
    @@ ("BUKUSERVER_URL_RENDER_MODE" :> UrlRenderMode)
    @@ ("SECRET_KEY" :> Or(getenv("BUKUSERVER_SECRET_KEY"), Str(rnd)).val)
    @@ ("BUKUSERVER_READONLY" :> get_bool_from_env_var("BUKUSERVER_READONLY", FALSE))
    @@ ("BUKUSERVER_DISABLE_FAVICON" :> get_bool_from_env_var("BUKUSERVER_DISABLE_FAVICON", TRUE))
    @@ ("BUKUSERVER_OPEN_IN_NEW_TAB" :> get_bool_from_env_var("BUKUSERVER_OPEN_IN_NEW_TAB", FALSE))
    @@ ("BUKUSERVER_DB_FILE" :> Or(getenv("BUKUSERVER_DB_FILE"), db_file))

\* line 102
ConfigProxy(cfg, reverse_proxy_path) ==
    IF Truthy(reverse_proxy_path)
    THEN cfg @@ ("REVERSE_PROXY_PATH" :> reverse_proxy_path.val)
    ELSE cfg

\* lines 108-109
ConfigTail(cfg) ==
    cfg
    @@ ("FLASK_ADMIN_SWATCH" :> Lower(Or(getenv("BUKUSERVER_THEME"), Str(S_default)).val))
    @@ ("BUKUSERVER_LOCALE" :> Or(getenv("BUKUSERVER_LOCALE"), Str(S_en)).val)

NoView == [db |-> 0, page_size |-> 0, url_render_mode |-> <<>>]
NoApp == [middleware |-> FALSE, locale |-> "none",
          bookmark_view |-> NoView, tag_view |-> NoView, statistic_view |-> NoView]

\* lines 154-159: the views handed to the admin
AdminViews(db, per_page, url_render_mode) ==
    [bookmark_view |-> [db |-> db, page_size |-> per_page, url_render_mode |-> url_render_mode],
     tag_view |-> [db |-> db, page_size |-> per_page, url_render_mode |-> <<>>],
     statistic_view |-> [db |-> db, page_size |-> 0, url_render_mode |-> <<>>]]

\* create_app(db_file); rnd is what os.urandom(24) yields, babel_ok whether
\* init_locale's import and Babel(app) succeed (it only warns otherwise).
create_app(db_file, rnd, babel_ok) ==
    /\ pc = "init"
    /\ LET reverse_proxy_path == getenv("BUKUSERVER_REVERSE_PROXY_PATH")
           cfg == ConfigProxy(ConfigBase(db_file, rnd), reverse_proxy_path)
           views == AdminViews(nHandles + 1, PerPage(PerPageEnv.val), UrlRenderMode)
       IN  IF ~PerPageEnv.ok
           THEN \* int() raises ValueError at line 81, before any key is written
                /\ pc' = "aborted"
                /\ error' = "ValueError"
                /\ UNCHANGED <<config, warnings, app, bukudb, g, nHandles>>
           ELSE IF Truthy(reverse_proxy_path) /\ ~mwAvailable
           THEN \* line 106
                /\ pc' = "aborted"
                /\ error' = "ImportError"
                /\ config' = cfg
                /\ warnings' = ProxyWarnings(reverse_proxy_path.val)
                /\ UNCHANGED <<app, bukudb, g, nHandles>>
           ELSE /\ pc' = "running"
                /\ error' = "none"
                /\ config' = ConfigTail(cfg)
                /\ warnings' = IF Truthy(reverse_proxy_path)
                               THEN ProxyWarnings(reverse_proxy_path.val) ELSE <<>>
                /\ nHandles' = nHandles + 1
                /\ bukudb' = nHandles + 1
                /\ g' = [g EXCEPT ![0] = nHandles + 1]
                /\ app' = [middleware |-> Truthy(reverse_proxy_path),
                           locale |-> IF babel_ok THEN "babel" ELSE "failed",
                           bookmark_view |-> views.bookmark_view,
                           tag_view |-> views.tag_view,
                           statistic_view |-> views.statistic_view]
    /\ UNCHANGED <<env, mwAvailable, store, last, call>>

-----------------------------------------------------------------------------
(* The request handlers *)

HTTP_400_BAD_REQUEST == 400
HTTP_200_OK == 200
DEFAULT_THREADS == 4

\* The threads requests are served on.  Thread 0 ran create_app, so the
\* application context pushed at line 110 (and never popped) is the current
\* one there and its flask.g has 'bukudb'; a request on any other thread runs
\* under an application context of its own, whose flask.g has no attribute.
Threads == 0..MaxThreads

\* an optional int (rec_id is None on /api/bookmarks/refresh)
IntNone == [isNone |-> TRUE, val |-> 0]
SomeInt(n) == [isNone |-> FALSE, val |-> n]

NoResp == [kind |-> "none", status |-> 0, url |-> <<>>]
NoDbCall == [fn |-> "none", index |-> 0, threads |-> IntNone, threads_str |-> None]
NoLast == [op |-> "none", thread |-> 0, url |-> None, rec_id |-> IntNone, threads |-> None,
           created |-> 0, used |-> 0, nh_called |-> FALSE, nh_outcome |-> "none",
           logged |-> FALSE, db_call |-> NoDbCall, db_flag |-> FALSE, db_result |-> None,
           raised |-> FALSE, resp |-> NoResp]

\* line 40: response.response_template['failure'], status.HTTP_400_BAD_REQUEST
failed_resp == [kind |-> "failure", status |-> HTTP_400_BAD_REQUEST, url |-> <<>>]

\* api.response_bad() and api.to_response(flag)
response_bad == [kind |-> "failure", status |-> HTTP_400_BAD_REQUEST, url |-> <<>>]
response_ok == [kind |-> "success", status |-> HTTP_200_OK, url |-> <<>>]
to_response(result_flag) == IF result_flag THEN response_ok ELSE response_bad

\* jsonify(...): a JSON body with the default status
jsonify(kind, url) == [kind |-> kind, status |-> HTTP_200_OK, url |-> url]

\* lines 39-51 with the try/except removed: the exception leaves the handler
HandleNetwork_uncaught(t, url, outcome) ==
    IF ~Truthy(url)
    THEN [NoLast EXCEPT !.op = "network", !.thread = t, !.url = url, !.resp = failed_resp]
    ELSE IF outcome = "ok"
    THEN [NoLast EXCEPT !.op = "network", !.thread = t, !.url = url, !.nh_called = TRUE,
                        !.nh_outcome = "ok", !.resp = jsonify("network", <<>>)]
    ELSE [NoLast EXCEPT !.op = "network", !.thread = t, !.url = url, !.nh_called = TRUE,
                        !.nh_outcome = "raise", !.raised = TRUE]

\* lines 39-51.  url is request.data.get('url', None); outcome is what the
\* call network_handler(url) does when it is made: "ok" (a result tuple) or
\* "raise" (an Exception).
HandleNetwork(t, url, outcome) ==
    IF ~Truthy(url)
    THEN [NoLast EXCEPT !.op = "network", !.thread = t, !.url = url, !.resp = failed_resp]
    ELSE IF outcome = "ok"
    THEN [NoLast EXCEPT !.op = "network", !.thread = t, !.url = url, !.nh_called = TRUE,
                        !.nh_outcome = "ok", !.resp = jsonify("network", <<>>)]
    ELSE [NoLast EXCEPT !.op = "network", !.thread = t, !.url = url, !.nh_called = TRUE,
                        !.nh_outcome = "raise", !.logged = TRUE, !.resp = failed_resp]

handle_network(t, url, outcome) ==
    /\ pc = "running"
    /\ last' = HandleNetwork(t, url, outcome)
    /\ UNCHANGED <<env, mwAvailable, pc, error, config, warnings, app, bukudb, g, nHandles,
                   store, call>>

\* api.get_bukudb(): a new BukuDb on the configured database file (the handle
\* create_app made is a local of create_app, reachable only through flask.g)
get_bukudb == nHandles + 1

\* getattr(flask.g, 'bukudb', api.get_bukudb()): the default is evaluated
\* before getattr is called, whether or not flask.g has the attribute
RequestBukudb(t, created) == IF g[t] # 0 THEN g[t] ELSE created

\* line 55 with rec_id or 1
RefreshIndex_or1(rec_id) == IF rec_id.isNone \/ rec_id.val = 0 THEN 1 ELSE rec_id.val

\* line 55: rec_id or 0
RefreshIndex(rec_id) == IF rec_id.isNone \/ rec_id.val = 0 THEN 0 ELSE rec_id.val

\* line 55: request.form.get('threads', 4): the form's string, or the int 4
RefreshThreads(threads) ==
    IF threads.isNone THEN [NoDbCall EXCEPT !.threads = SomeInt(DEFAULT_THREADS)]
    ELSE [NoDbCall EXCEPT !.threads_str = threads]

\* BukuDb.refreshdb(index, threads): the flags it can return
RefreshdbFlags(index) == IF index = 0 \/ index \in store THEN BOOLEAN ELSE {FALSE}

\* BukuDb.tnyfy_url(index): the results it can return
TnyfyUrlResults(index) ==
    IF index \in store THEN {None, Str(<<>>), Str(<<"t">>)} ELSE {None}

\* lines 54-56
RefreshBookmark(t, rec_id, threads, created, result_flag) ==
    [NoLast EXCEPT !.op = "refresh", !.thread = t, !.rec_id = rec_id, !.threads = threads,
                   !.created = created, !.used = RequestBukudb(t, created),
                   !.db_call = [RefreshThreads(threads) EXCEPT !.fn = "refreshdb",
                                                               !.index = RefreshIndex(rec_id)],
                   !.db_flag = result_flag, !.resp = to_response(result_flag)]

refresh_bookmark(t, rec_id, threads) ==
    /\ pc = "running"
    /\ nHandles < MaxHandles
    /\ \E result_flag \in RefreshdbFlags(RefreshIndex(rec_id)) :
          last' = RefreshBookmark(t, rec_id, threads, get_bukudb, result_flag)
    /\ nHandles' = nHandles + 1
    /\ UNCHANGED <<env, mwAvailable, pc, error, config, warnings, app, bukudb, g, store, call>>

\* line 61 with "if url is not None"
TinyResponse_notNone(url) == IF ~url.isNone THEN jsonify("url", url.val) ELSE response_bad

\* line 61
TinyResponse(url) == IF Truthy(url) THEN jsonify("url", url.val) ELSE response_bad

\* lines 59-61
GetTinyUrl(t, rec_id, created, url) ==
    [NoLast EXCEPT !.op = "tiny", !.thread = t, !.rec_id = SomeInt(rec_id),
                   !.created = created, !.used = RequestBukudb(t, created),
                   !.db_call = [NoDbCall EXCEPT !.fn = "tnyfy_url", !.index = rec_id],
                   !.db_result = url, !.resp = TinyResponse(url)]

\* get_tiny_url caching the handle's file in the configuration
get_tiny_url_writes_config(t, rec_id) ==
    /\ pc = "running"
    /\ nHandles < MaxHandles
    /\ \E url \in TnyfyUrlResults(rec_id) :
          last' = GetTinyUrl(t, rec_id, get_bukudb, url)
    /\ nHandles' = nHandles + 1
    /\ config' = [config EXCEPT !["BUKUSERVER_DB_FILE"] = Str(<<"t">>)]
    /\ UNCHANGED <<env, mwAvailable, pc, error, warnings, app, bukudb, g, store, call>>

get_tiny_url(t, rec_id) ==
    /\ pc = "running"
    /\ nHandles < MaxHandles
    /\ \E url \in TnyfyUrlResults(rec_id) :
          last' = GetTinyUrl(t, rec_id, get_bukudb, url)
    /\ nHandles' = nHandles + 1
    /\ UNCHANGED <<env, mwAvailable, pc, error, config, warnings, app, bukudb, g, store, call>>

\* a direct call get_bool_from_env_var(key, default_value)
GetBoolCall(key, default_value) ==
    /\ call' = [made |-> TRUE, key |-> key, default_value |-> default_value,
                result |-> get_bool_from_env_var(key, default_value)]
    /\ UNCHANGED <<env, mwAvailable, pc, error, config, warnings, app, bukudb, g, nHandles,
                   store, last>>

-----------------------------------------------------------------------------
(* Inputs *)

PerPageChars == {"-", "0", "3", "x", " "}
PerPageValues == {None} \cup {Str(s) : s \in SeqsUpTo(PerPageChars, MaxLen)}

ModeValues == {None, Str(S_full), Str(S_netloc), Str(<<"F","U","L","L">>), Str(<<>>),
               Str(<<"x">>)}

BoolChars == {"0", "1", "t", "Y"}
BoolLiterals == {S_true, S_false, <<"T","R","U","E">>, <<"T","r","u","e">>,
                 <<"F","A","L","S","E">>, <<"F","a","l","s","e">>, <<"y","e","s">>}
BoolValues == {None} \cup {Str(s) : s \in SeqsUpTo(BoolChars, MaxBoolLen) \cup BoolLiterals}
FlagValues == {None, Str(<<"T","R","U","E">>), Str(<<"0">>), Str(<<"x">>)}

PathValues == {None, Str(<<>>), Str(<<"/","b">>), Str(<<"b">>), Str(<<"/","b","/">>),
               Str(<<"b","/">>), Str(<<"/">>)}

SecretValues == {None, Str(<<>>), Str(<<"k">>)}
DbFileValues == {None, Str(<<"e">>)}
ThemeValues == {None, Str(<<"D","a","r","k">>)}
LocaleValues == {None, Str(<<"d","e">>)}

\* what os.urandom(24) can yield, and the db_file argument of create_app
RandomKeys == {<<"r1">>, <<"r2">>}
DbFileArgs == {None, Str(<<"a">>)}

\* request inputs
UrlValues == {None, Str(<<>>), Str(<<"u">>)}
RecIds == 0..MaxRecId
OptRecIds == {IntNone} \cup {SomeInt(n) : n \in RecIds}
ThreadsValues == {None, Str(<<>>), Str(<<"8">>)}

Envs(pp, mode, secret, ro, fav, tab, db, path, theme, locale) ==
    [BUKUSERVER_PER_PAGE : pp, BUKUSERVER_URL_RENDER_MODE : mode,
     BUKUSERVER_SECRET_KEY : secret, BUKUSERVER_READONLY : ro,
     BUKUSERVER_DISABLE_FAVICON : fav, BUKUSERVER_OPEN_IN_NEW_TAB : tab,
     BUKUSERVER_DB_FILE : db, BUKUSERVER_REVERSE_PROXY_PATH : path,
     BUKUSERVER_THEME : theme, BUKUSERVER_LOCALE : locale]

\* page size, render mode and proxy path vary over all their values
EnvsA == Envs(PerPageValues, ModeValues, {None}, {None}, {None}, {None}, {None},
              PathValues, {None}, {None})
\* the other variables vary
EnvsB == Envs({None, Str(<<"3">>)}, {None}, SecretValues, FlagValues, FlagValues, FlagValues,
              DbFileValues, {None, Str(<<"/","b">>)}, ThemeValues, LocaleValues)
\* the environments the server is run under
EnvsServe == Envs({Str(<<"3">>)}, {None}, {None}, {None}, {None}, {None}, {None},
                  {None, Str(<<"/","b">>)}, {None}, {None})
\* the environments get_bool_from_env_var is called under
EnvsBool == Envs({None}, {None}, {None}, BoolValues, {None, Str(<<"1">>)}, {None}, {None},
                 {None}, {None}, {None})

\* the process before create_app is called
Start ==
    /\ pc = "init"
    /\ error = "none"
    /\ config = <<>>
    /\ warnings = <<>>
    /\ app = NoApp
    /\ bukudb = 0
    /\ g = [t \in Threads |-> 0]
    /\ nHandles = 0
    /\ last = NoLast
    /\ call = [made |-> FALSE, key |-> "", default_value |-> FALSE, result |-> FALSE]

Init ==
    /\ env \in EnvsServe
    /\ mwAvailable \in BOOLEAN
    /\ store \in SUBSET (1..MaxRecId)
    /\ Start

InitConfig ==
    /\ env \in EnvsA \cup EnvsB
    /\ mwAvailable \in BOOLEAN
    /\ store = {}
    /\ Start

InitBool ==
    /\ env \in EnvsBool
    /\ mwAvailable = TRUE
    /\ store = {}
    /\ Start

CreateApp == \E db_file \in DbFileArgs, rnd \in RandomKeys, babel_ok \in BOOLEAN :
                create_app(db_file, rnd, babel_ok)
NetworkRequest == \E t \in Threads, url \in UrlValues, outcome \in {"ok", "raise"} :
                     handle_network(t, url, outcome)
RefreshRequest == \E t \in Threads, rec_id \in OptRecIds, threads \in ThreadsValues :
                     refresh_bookmark(t, rec_id, threads)
TinyRequest == \E t \in Threads, rec_id \in RecIds : get_tiny_url(t, rec_id)
BoolCall == \E key \in {"BUKUSERVER_READONLY", "BUKUSERVER_DISABLE_FAVICON"},
               default_value \in BOOLEAN : GetBoolCall(key, default_value)

Next == CreateApp \/ NetworkRequest \/ RefreshRequest \/ TinyRequest
NextConfig == CreateApp
NextBool == BoolCall

Spec == Init /\ [][Next]_vars
SpecConfig == InitConfig /\ [][NextConfig]_vars
SpecBool == InitBool /\ [][NextBool]_vars

-----------------------------------------------------------------------------
(* get_bool_from_env_var *)

\* the value the call saw: the variable's value, '' when it is unset
CallValue == IF env[call.key].isNone THEN <<>> ELSE env[call.key].val

\* C1 as stated: the result is True for "true"/"1", False for "false"/"0" and
\* the caller's default for every other value, the four literals compared
\* exactly.
C1_AsStated ==
    call.made =>
        call.result = (IF CallValue \in {S_true, <<"1">>} THEN TRUE
                       ELSE IF CallValue \in {S_false, <<"0">>} THEN FALSE
                       ELSE call.default_value)

\* C1 amended: the value is compared case-insensitively; the result is True
\* when the lower-cased value is "true" or "1", False when it is "false" or
\* "0", and the caller's default for every other value and for an unset
\* variable.
C1_CaseInsensitive ==
    call.made =>
        call.result = (IF Lower(CallValue) \in {S_true, <<"1">>} THEN TRUE
                       ELSE IF Lower(CallValue) \in {S_false, <<"0">>} THEN FALSE
                       ELSE call.default_value)

C1_Witness ==
    /\ call.made
    /\ CallValue = <<"T","R","U","E">>
    /\ call.default_value = FALSE
    /\ call.result = TRUE

-----------------------------------------------------------------------------
(* create_app *)

ModeEnv == env["BUKUSERVER_URL_RENDER_MODE"]
PathEnv == env["BUKUSERVER_REVERSE_PROXY_PATH"]
PerPageSet == ~env["BUKUSERVER_PER_PAGE"].isNone
PerPageInt == IntParse(env["BUKUSERVER_PER_PAGE"].val)

\* C2: after startup the configured URL render mode is 'full' or 'netloc'; it
\* is the environment's value when that is one of the two and the default
\* mode otherwise (unset included); the Bookmark view gets the same value.
C2_RenderMode ==
    pc = "running" =>
        /\ config["BUKUSERVER_URL_RENDER_MODE"] \in {S_full, S_netloc}
        /\ config["BUKUSERVER_URL_RENDER_MODE"] =
              (IF ~ModeEnv.isNone /\ ModeEnv.val \in {S_full, S_netloc}
               THEN ModeEnv.val ELSE DEFAULT_URL_RENDER_MODE)
        /\ app.bookmark_view.url_render_mode = config["BUKUSERVER_URL_RENDER_MODE"]

C2_Witness ==
    /\ pc = "running"
    /\ ModeEnv = Str(<<"F","U","L","L">>)
    /\ config["BUKUSERVER_URL_RENDER_MODE"] = S_full
    /\ app.bookmark_view.url_render_mode = S_full

\* C4: create_app raises only when BUKUSERVER_REVERSE_PROXY_PATH is non-empty
\* and the middleware could not be imported; under every other environment
\* it completes.
C4_RaisesOnlyForMiddleware ==
    pc # "init" => (pc = "aborted" <=> (Truthy(PathEnv) /\ ~mwAvailable))

\* C5: with the middleware available a non-empty reverse proxy path is never
\* rejected: startup completes, one warning is printed per defect (none for
\* a well-formed path), the path is stored unmodified and the middleware is
\* installed; an unset or empty path stores nothing and installs nothing.
C5_ProxyPathAccepted ==
    (pc # "init" /\ mwAvailable) =>
        IF Truthy(PathEnv)
        THEN /\ pc = "running"
             /\ "REVERSE_PROXY_PATH" \in DOMAIN config
             /\ config["REVERSE_PROXY_PATH"] = PathEnv.val
             /\ app.middleware
             /\ warnings = (IF PathEnv.val[1] # "/" THEN <<"preceding slash">> ELSE <<>>)
                           \o (IF PathEnv.val[Len(PathEnv.val)] = "/"
                               THEN <<"trailing slash">> ELSE <<>>)
        ELSE /\ "REVERSE_PROXY_PATH" \notin DOMAIN config
             /\ ~app.middleware
             /\ warnings = <<>>

\* C9: for every integer value of BUKUSERVER_PER_PAGE (and when it is unset)
\* the configured page size is strictly positive: the value when it is > 0,
\* views.DEFAULT_PER_PAGE when it is 0, negative or unset; the Bookmark and
\* Tag views get the same page size.
C9_PageSize ==
    (pc = "running" /\ (PerPageSet => PerPageInt.ok)) =>
        /\ config["BUKUSERVER_PER_PAGE"] > 0
        /\ config["BUKUSERVER_PER_PAGE"] =
              (IF PerPageSet /\ PerPageInt.val > 0 THEN PerPageInt.val ELSE DEFAULT_PER_PAGE)
        /\ app.bookmark_view.page_size = config["BUKUSERVER_PER_PAGE"]
        /\ app.tag_view.page_size = config["BUKUSERVER_PER_PAGE"]

C9_Witness ==
    /\ pc = "running"
    /\ env["BUKUSERVER_PER_PAGE"] = Str(<<"-","3">>)
    /\ config["BUKUSERVER_PER_PAGE"] = DEFAULT_PER_PAGE
    /\ app.tag_view.page_size = DEFAULT_PER_PAGE

-----------------------------------------------------------------------------
(* The request handlers *)

\* C3: handle_network answers the generic failure template with status 400,
\* without letting an exception out, when 'url' is missing or empty and when
\* network_handler raises; the failure response is the same for every
\* cause; network_handler is not called when 'url' is missing or empty.
C3_NetworkFailure ==
    last.op = "network" =>
        /\ ~last.raised
        /\ ~Truthy(last.url) => (~last.nh_called /\ last.resp.kind = "failure")
        /\ last.nh_outcome = "raise" => last.resp.kind = "failure"
        /\ last.resp.kind = "failure" =>
              last.resp = [kind |-> "failure", status |-> 400, url |-> <<>>]
        /\ last.resp.kind # "failure" => (last.nh_called /\ last.nh_outcome = "ok")

C3_Witness ==
    /\ last.op = "network"
    /\ last.nh_outcome = "raise"
    /\ last.resp.kind = "failure"
    /\ last.resp.status = 400

\* C6: get_tiny_url answers api.response_bad(), without crashing, for an id
\* that is not in the store; it answers the JSON body {'url': ...} exactly
\* when the handle yields a non-empty URL, and every request ends in one of
\* these two responses.
C6_TinyUrl ==
    last.op = "tiny" =>
        /\ ~last.raised
        /\ last.rec_id.val \notin store => last.resp = response_bad
        /\ last.resp.kind \in {"url", "failure"}
        /\ last.resp.kind = "url" <=> (~last.db_result.isNone /\ last.db_result.val # <<>>)
        /\ last.resp.kind = "url" => last.resp.url = last.db_result.val
        /\ last.resp.kind = "failure" => last.resp = response_bad

C6_Witness ==
    /\ last.op = "tiny"
    /\ last.rec_id.val \notin store
    /\ store # {}
    /\ last.resp.kind = "failure"

\* C7: the configuration is written during create_app only: once create_app
\* has run, no step (no request to handle_network, refresh_bookmark or
\* get_tiny_url) changes any configuration key.
C7_ConfigImmutable == [][pc # "init" => config' = config]_vars

C7_Witness ==
    /\ pc = "running"
    /\ last.op = "tiny"
    /\ nHandles = MaxHandles
    /\ config["BUKUSERVER_PER_PAGE"] = 3

\* C8: every request served by refresh_bookmark or get_tiny_url, on any
\* thread, uses the handle create_app created and attached, and creates no
\* other handle; the attached handle is never replaced.
C8_OneSharedHandle ==
    /\ pc = "running" => (g[0] = bukudb /\ bukudb = 1)
    /\ last.op \in {"refresh", "tiny"} => (last.used = bukudb /\ last.created = 0)

\* C10: refresh_bookmark calls refreshdb with index 0 for a missing record id
\* and for record id 0, and with the id itself otherwise; the thread count
\* is the 'threads' form value when supplied and 4 otherwise; the response
\* is decided by the flag refreshdb returned.
C10_Refresh ==
    last.op = "refresh" =>
        /\ last.db_call.fn = "refreshdb"
        /\ (last.rec_id.isNone \/ last.rec_id.val = 0) => last.db_call.index = 0
        /\ (~last.rec_id.isNone /\ last.rec_id.val # 0) => last.db_call.index = last.rec_id.val
        /\ last.threads.isNone =>
              (last.db_call.threads = [isNone |-> FALSE, val |-> 4]
               /\ last.db_call.threads_str.isNone)
        /\ ~last.threads.isNone =>
              (last.db_call.threads_str = last.threads /\ last.db_call.threads.isNone)
        /\ last.resp = (IF last.db_flag THEN response_ok ELSE response_bad)

C10_Witness ==
    /\ last.op = "refresh"
    /\ last.rec_id.isNone
    /\ last.threads.isNone
    /\ last.db_call.index = 0
    /\ last.db_flag
    /\ last.resp.kind = "success"

-----------------------------------------------------------------------------
(* What the code does where C5 and C8 fail *)

\* When int() accepts BUKUSERVER_PER_PAGE (or it is unset), create_app
\* reaches the reverse proxy block and treats the path as C5 says.
ProxyBlockWhenPageSizeParses ==
    (PerPageSet => PerPageInt.ok) => C5_ProxyPathAccepted

\* Every refresh_bookmark / get_tiny_url request obtains a new handle from
\* api.get_bukudb(); it uses the attached handle on the thread whose
\* application context create_app pushed, and the new handle on any other
\* thread.  The attached handle itself is never replaced.
HandleUsedByRequest ==
    /\ pc = "running" => (g[0] = bukudb /\ bukudb = 1 /\ \A t \in Threads \ {0} : g[t] = 0)
    /\ last.op \in {"refresh", "tiny"} =>
          /\ last.created > bukudb
          /\ last.thread = 0 => last.used = bukudb
          /\ last.thread # 0 => last.used = last.created

====
